---------------------------- MODULE Spec2Model ----------------------------
(***************************************************************************)
(* Sensitive-data detection of the Word redaction add-in                   *)
(* (src/src/office/sensitivePatterns.ts).                                  *)
(*                                                                         *)
(* A string is a sequence of one-character strings; positions are the      *)
(* 0-based indices of JavaScript, so the character at index i of t is      *)
(* t[i + 1].                                                               *)
(***************************************************************************)
EXTENDS Integers, Sequences, FiniteSets, TLC

(***************************************************************************)
(* Characters.                                                             *)
(***************************************************************************)
Digits == {"0", "1", "2", "3", "4", "5", "6", "7", "8", "9"}

UpperSeq ==
  << "A", "B", "C", "D", "E", "F", "G", "H", "I", "J", "K", "L", "M",
     "N", "O", "P", "Q", "R", "S", "T", "U", "V", "W", "X", "Y", "Z" >>

LowerSeq ==
  << "a", "b", "c", "d", "e", "f", "g", "h", "i", "j", "k", "l", "m",
     "n", "o", "p", "q", "r", "s", "t", "u", "v", "w", "x", "y", "z" >>

DigitSeq == << "0", "1", "2", "3", "4", "5", "6", "7", "8", "9" >>

Range(s) == {s[k] : k \in DOMAIN s}

Upper == Range(UpperSeq)

Lower == Range(LowerSeq)

\* \s of a JavaScript regular expression, within the characters modelled.
Whitespace == {" ", "\t", "\n", "\r"}

\* \w of a JavaScript regular expression.
WordChars == Upper \cup Lower \cup Digits \cup {"_"}

\* String.prototype.toLowerCase / toUpperCase on one character.
toLowerCaseChar(c) ==
  IF c \in Upper THEN LowerSeq[CHOOSE k \in 1..26 : UpperSeq[k] = c] ELSE c

toUpperCaseChar(c) ==
  IF c \in Lower THEN UpperSeq[CHOOSE k \in 1..26 : LowerSeq[k] = c] ELSE c

toLowerCase(s) == [k \in DOMAIN s |-> toLowerCaseChar(s[k])]

toUpperCase(s) == [k \in DOMAIN s |-> toUpperCaseChar(s[k])]

\* String.prototype.charCodeAt for the characters the validators tell apart:
\* '0'..'9' are 48..57, 'A'..'Z' are 65..90, 'a'..'z' are 97..122; the
\* punctuation of the model ('space' 32 .. '/' 47, ':' 58, '@' 64) lies
\* outside both ranges.
charCode(c) ==
  IF c \in Digits THEN 47 + (CHOOSE k \in 1..10 : DigitSeq[k] = c)
  ELSE IF c \in Upper THEN 64 + (CHOOSE k \in 1..26 : UpperSeq[k] = c)
  ELSE IF c \in Lower THEN 96 + (CHOOSE k \in 1..26 : LowerSeq[k] = c)
  ELSE IF c = "@" THEN 64
  ELSE IF c = ":" THEN 58
  ELSE IF c = "/" THEN 47
  ELSE IF c = "[" THEN 91
  ELSE IF c = "_" THEN 95
  ELSE IF c = "-" THEN 45
  ELSE IF c = "." THEN 46
  ELSE IF c = "+" THEN 43
  ELSE IF c = "(" THEN 40
  ELSE IF c = ")" THEN 41
  ELSE IF c = "#" THEN 35
  ELSE IF c = "%" THEN 37
  ELSE IF c = "," THEN 44
  ELSE IF c = ";" THEN 59
  ELSE IF c = "\n" THEN 10
  ELSE IF c = "\t" THEN 9
  ELSE IF c = "\r" THEN 13
  ELSE 32

\* String.prototype.slice(a, b) for 0 <= a, b <= length.
slice(t, a, b) == SubSeq(t, a + 1, b)

\* String.prototype.trim.
RECURSIVE trimStart(_)
trimStart(s) ==
  IF s # << >> /\ Head(s) \in Whitespace THEN trimStart(Tail(s)) ELSE s

RECURSIVE trimEnd(_)
trimEnd(s) ==
  IF s # << >> /\ s[Len(s)] \in Whitespace
  THEN trimEnd(SubSeq(s, 1, Len(s) - 1))
  ELSE s

trim(s) == trimEnd(trimStart(s))

\* s.replace(/[^\d]/g, "")
RECURSIVE digitsOnly(_)
digitsOnly(s) ==
  IF s = << >> THEN << >>
  ELSE IF Head(s) \in Digits THEN << Head(s) >> \o digitsOnly(Tail(s))
  ELSE digitsOnly(Tail(s))

\* s.replace(/\s+/g, "")
RECURSIVE stripWhitespace(_)
stripWhitespace(s) ==
  IF s = << >> THEN << >>
  ELSE IF Head(s) \in Whitespace THEN stripWhitespace(Tail(s))
  ELSE << Head(s) >> \o stripWhitespace(Tail(s))

(***************************************************************************)
(* Regular expressions.  A pattern is a sequence of nodes; the matcher is  *)
(* the backtracking matcher of ECMAScript: alternatives left to right,     *)
(* greedy quantifiers longest first, lazy quantifiers shortest first, and  *)
(* the first success wins.                                                 *)
(***************************************************************************)
\* One character of the set s.
Cls(s) == [op |-> "cls", s |-> s]

\* One character not in the set s.
NotCls(s) == [op |-> "ncls", s |-> s]

\* (?<!x) and (?!x) for a one-character class x.
NotBehind(s) == [op |-> "nlb", s |-> s]

NotAhead(s) == [op |-> "nla", s |-> s]

\* \b
WordB == [op |-> "wb"]

\* The parentheses of capture group 1.
CapOpen == [op |-> "open"]

CapClose == [op |-> "close"]

\* [s]{min,max}, [^s]{min,max} and [s]{min,max}? for a character class s;
\* max = -1 is "no upper limit".
Run(s, min, max) ==
  [op |-> "run", s |-> s, neg |-> FALSE, min |-> min, max |-> max, greedy |-> TRUE]

NotRun(s, min, max) ==
  [op |-> "run", s |-> s, neg |-> TRUE, min |-> min, max |-> max, greedy |-> TRUE]

LazyRun(s, min, max) ==
  [op |-> "run", s |-> s, neg |-> FALSE, min |-> min, max |-> max, greedy |-> FALSE]

\* [s]{n}: exactly n characters of the class.
Times(s, n) == [k \in 1..n |-> Cls(s)]

\* (?:body){min,max} for a pattern body; max = -1 is "no upper limit".
Rep(body, min, max) ==
  [op |-> "rep", body |-> body, min |-> min, max |-> max]

\* (?:a|b|...): alts is a sequence of patterns.
Alt(alts) == [op |-> "alt", alts |-> alts]

\* A literal string under the i flag: each character matches in either case.
LitI(s) == [k \in DOMAIN s |-> Cls({toLowerCaseChar(s[k]), toUpperCaseChar(s[k])})]

\* A literal string, case-sensitive.
Lit(s) == [k \in DOMAIN s |-> Cls({s[k]})]

\* The members of a character class under the i flag.
AnyCase(s) == s \cup {toLowerCaseChar(c) : c \in s} \cup {toUpperCaseChar(c) : c \in s}

isWordAt(t, i) == i >= 0 /\ i < Len(t) /\ t[i + 1] \in WordChars

\* Nodes that match in at most one way: a character or an assertion.
Simple == {"cls", "ncls", "nlb", "nla", "wb", "open", "close"}

Consuming == {"cls", "ncls"}

\* Whether the simple node n matches at index i of t.
SimpleOk(n, t, i) ==
  CASE n.op = "cls" -> i < Len(t) /\ t[i + 1] \in n.s
    [] n.op = "ncls" -> i < Len(t) /\ t[i + 1] \notin n.s
    [] n.op = "nlb" -> ~(i > 0 /\ t[i] \in n.s)
    [] n.op = "nla" -> ~(i < Len(t) /\ t[i + 1] \in n.s)
    [] n.op = "wb" -> isWordAt(t, i - 1) # isWordAt(t, i)
    [] OTHER -> TRUE

\* The number of leading simple nodes of a pattern.
PrefixLen(nodes) ==
  CHOOSE p \in 0..Len(nodes) :
    /\ \A k \in 1..p : nodes[k].op \in Simple
    /\ p = Len(nodes) \/ nodes[p + 1].op \notin Simple

\* The characters consumed by the first k nodes of a simple prefix.
Consumed(nodes, k) == Cardinality({m \in 1..k : nodes[m].op \in Consuming})

\* The value of a capture bound after the first p nodes, given it before.
CapAfter(nodes, p, i, what, before) ==
  LET at == {k \in 1..p : nodes[k].op = what}
  IN  IF at = {} THEN before
      ELSE i + Consumed(nodes, CHOOSE k \in at : \A m \in at : m <= k)

\* How many characters from index j on belong to the class of run node n,
\* up to n.max.
RunLength(n, t, j) ==
  LET lim == IF n.max < 0 \/ n.max > Len(t) - j THEN Len(t) - j ELSE n.max
  IN  CHOOSE k \in 0..lim :
        /\ k = lim \/ ((t[j + k + 1] \in n.s) = n.neg)
        /\ \A m \in 1..k : (t[j + m] \in n.s) # n.neg

\* A matcher state: the index reached and the bounds of capture group 1.
At(i, cs, ce) == [end |-> i, capStart |-> cs, capEnd |-> ce]

Failed == At(-1, -1, -1)

\* The state after the p simple nodes that start `nodes`, from state at.
AfterPrefix(nodes, p, at) ==
  At(at.end + Consumed(nodes, p),
     CapAfter(nodes, p, at.end, "open", at.capStart),
     CapAfter(nodes, p, at.end, "close", at.capEnd))

\* Whether the p simple nodes that start `nodes` match at index i of t.
PrefixOk(nodes, p, t, i) ==
  \A k \in 1..p : SimpleOk(nodes[k], t, i + Consumed(nodes, k - 1))

\* The state at, k characters further.
Advance(at, k) == [at EXCEPT !.end = at.end + k]

\* A quantified group after one more iteration.
OneLess(n) ==
  [n EXCEPT !.min = IF n.min > 0 THEN n.min - 1 ELSE 0,
            !.max = IF n.max > 0 THEN n.max - 1 ELSE n.max]

\* Backtracking: the first attempt if it matched, else the second.
FirstOf(first, second) == IF first.end >= 0 THEN first ELSE second

RECURSIVE MatchHere(_, _, _)

\* The first of the patterns alts[a..] \o rest to match from state at.
RECURSIVE MatchAlt(_, _, _, _, _)
MatchAlt(alts, a, rest, t, at) ==
  IF a = Len(alts) THEN MatchHere(alts[a] \o rest, t, at)
  ELSE FirstOf(MatchHere(alts[a] \o rest, t, at),
               MatchAlt(alts, a + 1, rest, t, at))

\* The first count of a run, among lo..hi in the order a greedy (from hi
\* down) or a lazy (from lo up) quantifier tries them, after which rest
\* matches.
RECURSIVE MatchRun(_, _, _, _, _, _)
MatchRun(rest, t, at, lo, hi, greedy) ==
  LET mid == (lo + hi) \div 2
  IN  IF lo = hi THEN MatchHere(rest, t, Advance(at, lo))
      ELSE IF greedy
           THEN FirstOf(MatchRun(rest, t, at, mid + 1, hi, greedy),
                        MatchRun(rest, t, at, lo, mid, greedy))
           ELSE FirstOf(MatchRun(rest, t, at, lo, mid, greedy),
                        MatchRun(rest, t, at, mid + 1, hi, greedy))

\* The match of pattern `nodes` from state at (anchored at index at.end of
\* t): the state reached, or Failed.
MatchHere(nodes, t, at) ==
  LET p == PrefixLen(nodes)
      to == AfterPrefix(nodes, p, at)
      n == nodes[p + 1]
      rest == SubSeq(nodes, p + 2, Len(nodes))
      len == RunLength(n, t, to.end)
  IN  CASE ~PrefixOk(nodes, p, t, at.end) -> Failed
        [] p = Len(nodes) -> to
        [] n.op = "alt" -> MatchAlt(n.alts, 1, rest, t, to)
        [] n.op = "run" /\ len < n.min -> Failed
        [] n.op = "run" /\ len = n.min -> MatchHere(rest, t, Advance(to, len))
        [] n.op = "run" -> MatchRun(rest, t, to, n.min, len, n.greedy)
        [] n.op = "rep" /\ n.min > 0 ->
             MatchHere(n.body \o << OneLess(n) >> \o rest, t, to)
        [] n.op = "rep" /\ n.max = 0 -> MatchHere(rest, t, to)
        [] n.op = "rep" ->
             FirstOf(MatchHere(n.body \o << OneLess(n) >> \o rest, t, to),
                     MatchHere(rest, t, to))

NoMatch == [index |-> -1, end |-> -1, capStart |-> -1, capEnd |-> -1]

\* RegExp.prototype.exec of a global pattern whose lastIndex is `from`: the
\* leftmost match starting at or after `from`, or NoMatch.
exec(re, t, from) ==
  LET starts == {s \in from..Len(t) : MatchHere(re, t, At(s, -1, -1)).end >= 0}
  IN  IF starts = {} THEN NoMatch
      ELSE LET s == CHOOSE s \in starts : \A u \in starts : s <= u
               m == MatchHere(re, t, At(s, -1, -1))
           IN  [index |-> s, end |-> m.end,
                capStart |-> m.capStart, capEnd |-> m.capEnd]

(***************************************************************************)
(* The patterns of sensitivePatterns.ts.                                   *)
(***************************************************************************)
\* [-.\s]
PhoneSep == {"-", "."} \cup Whitespace

\* [-\s]
DashSpace == {"-"} \cup Whitespace

\* [A-Z0-9] under the i flag
AlphaNum == Upper \cup Lower \cup Digits

\* /\b[A-Z0-9._%+-]+@[A-Z0-9.-]+\.[A-Z]{2,}\b/gi
EMAIL_RE ==
  << WordB,
     Run(AlphaNum \cup {".", "_", "%", "+", "-"}, 1, -1),
     Cls({"@"}),
     Run(AlphaNum \cup {".", "-"}, 1, -1),
     Cls({"."}),
     Run(AnyCase(Upper), 2, -1),
     WordB >>

\* /\b\d{3}-\d{2}-\d{4}\b/g
SSN_RE ==
  << WordB >> \o Times(Digits, 3) \o << Cls({"-"}) >> \o Times(Digits, 2)
    \o << Cls({"-"}) >> \o Times(Digits, 4) \o << WordB >>

\* /\b(?:social security number|ssn)\b[^0-9]{0,80}(\d{4})\b/gi
SSN_LAST4_CONTEXT_RE ==
  << WordB,
     Alt(<< LitI(<< "s", "o", "c", "i", "a", "l", " ", "s", "e", "c", "u", "r", "i", "t", "y", " ", "n", "u", "m", "b", "e", "r" >>), LitI(<< "s", "s", "n" >>) >>),
     WordB,
     NotRun(Digits, 0, 80),
     CapOpen >> \o Times(Digits, 4) \o << CapClose, WordB >>

\* /(?<!\d)(?:\+?\d{1,3}[-.\s]*)?(?:\(\s*\d{3}\s*\)|\d{3})[-.\s]*\d{3}[-.\s]*\d{4}(?!\d)/g
PHONE_RE ==
  << NotBehind(Digits),
     Rep(<< Run({"+"}, 0, 1), Run(Digits, 1, 3), Run(PhoneSep, 0, -1) >>, 0, 1),
     Alt(<< << Cls({"("}), Run(Whitespace, 0, -1) >> \o Times(Digits, 3)
              \o << Run(Whitespace, 0, -1), Cls({")"}) >>,
            Times(Digits, 3) >>),
     Run(PhoneSep, 0, -1) >>
    \o Times(Digits, 3) \o << Run(PhoneSep, 0, -1) >> \o Times(Digits, 4)
    \o << NotAhead(Digits) >>

\* /(?<!\d)(?:\d[ -]*?){13,19}(?!\d)/g
CARD_CANDIDATE_RE ==
  << NotBehind(Digits),
     Rep(<< Cls(Digits), LazyRun({" ", "-"}, 0, -1) >>, 13, 19),
     NotAhead(Digits) >>

\* /(?<![A-Z0-9])[A-Z]{2}\d{2}(?:[ ]?[A-Z0-9]){11,30}(?![A-Z0-9])/gi
IBAN_CANDIDATE_RE ==
  << NotBehind(AlphaNum) >> \o Times(AnyCase(Upper), 2) \o Times(Digits, 2)
    \o << Rep(<< Run({" "}, 0, 1), Cls(AlphaNum) >>, 11, 30),
          NotAhead(AlphaNum) >>

\* /\brouting(?:\s*number)?\s*[:\-]?\s*(\d{9})\b/gi
ROUTING_RE ==
  << WordB >> \o LitI(<< "r", "o", "u", "t", "i", "n", "g" >>)
    \o << Rep(<< Run(Whitespace, 0, -1) >> \o LitI(<< "n", "u", "m", "b", "e", "r" >>), 0, 1),
          Run(Whitespace, 0, -1),
          Run({":", "-"}, 0, 1),
          Run(Whitespace, 0, -1),
          CapOpen >>
    \o Times(Digits, 9) \o << CapClose, WordB >>

\* /\b(?:account|acct)(?:\s*(?:number|no\.?|#))?\s*[:\-]?\s*(\d{6,17})\b/gi
ACCOUNT_RE ==
  << WordB,
     Alt(<< LitI(<< "a", "c", "c", "o", "u", "n", "t" >>), LitI(<< "a", "c", "c", "t" >>) >>),
     Rep(<< Run(Whitespace, 0, -1),
            Alt(<< LitI(<< "n", "u", "m", "b", "e", "r" >>),
                   LitI(<< "n", "o" >>) \o << Run({"."}, 0, 1) >>,
                   << Cls({"#"}) >> >>) >>, 0, 1),
     Run(Whitespace, 0, -1),
     Run({":", "-"}, 0, 1),
     Run(Whitespace, 0, -1),
     CapOpen, Run(Digits, 6, 17), CapClose,
     WordB >>

\* /\bsort\s*code\s*[:\-]?\s*(\d{2}[- ]?\d{2}[- ]?\d{2})\b/gi
SORT_CODE_RE ==
  << WordB >> \o LitI(<< "s", "o", "r", "t" >>) \o << Run(Whitespace, 0, -1) >> \o LitI(<< "c", "o", "d", "e" >>)
    \o << Run(Whitespace, 0, -1),
          Run({":", "-"}, 0, 1),
          Run(Whitespace, 0, -1),
          CapOpen >>
    \o Times(Digits, 2) \o << Run({"-", " "}, 0, 1) >>
    \o Times(Digits, 2) \o << Run({"-", " "}, 0, 1) >>
    \o Times(Digits, 2) \o << CapClose, WordB >>

\* /\bINS[-\s]*\d{6,14}\b/gi
INS_POLICY_RE ==
  << WordB >> \o LitI(<< "I", "N", "S" >>)
    \o << Run(DashSpace, 0, -1), Run(Digits, 6, 14), WordB >>

\* /\bEMP[-\s]*\d{2,4}(?:[-\s]*\d{2,6})+\b/gi
EMPLOYEE_ID_RE ==
  << WordB >> \o LitI(<< "E", "M", "P" >>)
    \o << Run(DashSpace, 0, -1),
          Run(Digits, 2, 4),
          Rep(<< Run(DashSpace, 0, -1), Run(Digits, 2, 6) >>, 1, -1),
          WordB >>

\* /\bMRN[-\s]*\d{4,14}\b/gi
MRN_RE ==
  << WordB >> \o LitI(<< "M", "R", "N" >>)
    \o << Run(DashSpace, 0, -1), Run(Digits, 4, 14), WordB >>

\* /\b(?:credit\s*card|debit\s*card|card\s*number|visa|mastercard|amex|american\s*express)\b/
CARD_KEYWORD_RE ==
  << WordB,
     Alt(<< Lit(<< "c", "r", "e", "d", "i", "t" >>) \o << Run(Whitespace, 0, -1) >> \o Lit(<< "c", "a", "r", "d" >>),
            Lit(<< "d", "e", "b", "i", "t" >>) \o << Run(Whitespace, 0, -1) >> \o Lit(<< "c", "a", "r", "d" >>),
            Lit(<< "c", "a", "r", "d" >>) \o << Run(Whitespace, 0, -1) >> \o Lit(<< "n", "u", "m", "b", "e", "r" >>),
            Lit(<< "v", "i", "s", "a" >>),
            Lit(<< "m", "a", "s", "t", "e", "r", "c", "a", "r", "d" >>),
            Lit(<< "a", "m", "e", "x" >>),
            Lit(<< "a", "m", "e", "r", "i", "c", "a", "n" >>) \o << Run(Whitespace, 0, -1) >> \o Lit(<< "e", "x", "p", "r", "e", "s", "s" >>) >>),
     WordB >>

\* RegExp.prototype.test of a pattern without the g flag: a match anywhere.
test(re, t) == \E s \in 0..Len(t) : MatchHere(re, t, At(s, -1, -1)).end >= 0

(***************************************************************************)
(* Validators.                                                             *)
(***************************************************************************)
\* luhnDigit with `d %= 10` for `d -= 9`.
luhnDigit_NoCarry(c, shouldDouble) ==
  LET d == charCode(c) - 48
  IN  IF shouldDouble THEN (d * 2) % 10 ELSE d

\* What one digit adds to the sum: `d *= 2; if (d > 9) d -= 9` when
\* shouldDouble.
luhnDigit(c, shouldDouble) ==
  LET d == charCode(c) - 48
  IN  IF shouldDouble THEN (IF d * 2 > 9 THEN d * 2 - 9 ELSE d * 2) ELSE d

\* luhnCheck: the loop from the last character to the first, as the state
\* (sum, shouldDouble) after the characters i..Len(digits); sum = -1 stands
\* for the early `return false` on a non-digit.
RECURSIVE luhnLoop(_, _, _, _)
luhnLoop(digits, i, sum, shouldDouble) ==
  IF i < 1 THEN sum
  ELSE LET d == charCode(digits[i]) - 48
       IN  IF d < 0 \/ d > 9 THEN -1
           ELSE luhnLoop(digits, i - 1, sum + luhnDigit(digits[i], shouldDouble),
                         ~shouldDouble)

luhnCheck(digits) ==
  LET sum == luhnLoop(digits, Len(digits), 0, FALSE)
  IN  sum >= 0 /\ sum % 10 = 0

\* /^[A-Z]{2}\d{2}[A-Z0-9]{11,30}$/.test(iban)
ibanShape(iban) ==
  /\ Len(iban) >= 15 /\ Len(iban) <= 34
  /\ \A k \in 1..2 : iban[k] \in Upper
  /\ \A k \in 3..4 : iban[k] \in Digits
  /\ \A k \in 5..Len(iban) : iban[k] \in Upper \cup Digits

\* foldChar with `val = ch - 65`: 'A' as 0.
foldChar_FromZero(mod, c) ==
  LET ch == charCode(c)
  IN  IF ch >= 48 /\ ch <= 57 THEN << mod * 10 + (ch - 48) >>
      ELSE IF ch >= 65 /\ ch <= 90
           THEN LET val == ch - 65
                    tens == mod * 10 + (val \div 10)
                IN  << tens, (tens % 97) * 10 + (val % 10) >>
           ELSE << >>

\* The values (mod * 10 + digit) that one character of the rearranged IBAN
\* computes before each "% 97": one for a digit, two for a letter (the tens
\* and the units of 10..35), none for any other character.
foldChar(mod, c) ==
  LET ch == charCode(c)
  IN  IF ch >= 48 /\ ch <= 57 THEN << mod * 10 + (ch - 48) >>
      ELSE IF ch >= 65 /\ ch <= 90
           THEN LET val == ch - 55
                    tens == mod * 10 + (val \div 10)
                IN  << tens, (tens % 97) * 10 + (val % 10) >>
           ELSE << >>

\* The loop of isValidIban over rearranged[i..]: the final mod and the
\* largest value computed before a "% 97"; mod = -1 stands for the
\* `return false` of the else branch.
RECURSIVE ibanLoop(_, _, _, _)
ibanLoop(rearranged, i, mod, peak) ==
  IF i > Len(rearranged) THEN [mod |-> mod, peak |-> peak]
  ELSE LET vals == foldChar(mod, rearranged[i])
       IN  IF vals = << >> THEN [mod |-> -1, peak |-> peak]
           ELSE ibanLoop(rearranged, i + 1, vals[Len(vals)] % 97,
                         LET m == IF Len(vals) = 2 /\ vals[1] > vals[2]
                                  THEN vals[1] ELSE vals[Len(vals)]
                         IN  IF m > peak THEN m ELSE peak)

\* iban.slice(4) + iban.slice(0, 4)
rearrange(iban) == slice(iban, 4, Len(iban)) \o slice(iban, 0, 4)

\* isValidIban with `return mod <= 1`.
isValidIban_AtMostOne(iban) ==
  /\ ibanShape(iban)
  /\ ibanLoop(rearrange(iban), 1, 0, 0).mod \in {0, 1}

isValidIban(iban) ==
  /\ ibanShape(iban)
  /\ ibanLoop(rearrange(iban), 1, 0, 0).mod = 1

\* The largest value the loop of isValidIban computes before a "% 97".
ibanPeak(iban) ==
  IF ibanShape(iban) THEN ibanLoop(rearrange(iban), 1, 0, 0).peak ELSE 0

(***************************************************************************)
(* The Map<string, string> of the scanners: a sequence of entries in       *)
(* insertion order.  Field from is history the program does not keep: the *)
(* loop that made the entry and the index in the text of what it matched.  *)
(***************************************************************************)
mapHas(unique, key) == \E k \in DOMAIN unique : unique[k].key = key

\* setIfAbsent without the test: unique.set(key, value) replaces the value
\* of a key the Map has.
setIfAbsent_Overwrite(unique, key, value, from) ==
  IF mapHas(unique, key)
  THEN [k \in DOMAIN unique |->
          IF unique[k].key = key THEN [unique[k] EXCEPT !.value = value]
          ELSE unique[k]]
  ELSE Append(unique, [key |-> key, value |-> value, from |-> from])

\* if (!unique.has(key)) unique.set(key, value)
setIfAbsent(unique, key, value, from) ==
  IF mapHas(unique, key) THEN unique
  ELSE Append(unique, [key |-> key, value |-> value, from |-> from])

\* The history of an entry: made by loop from the match at index.
By(loop, index) == [loop |-> loop, index |-> index]

\* [...unique.values()]
mapValues(unique) == [k \in DOMAIN unique |-> unique[k].value]

\* m[0] and m[1] of a match.
whole(text, m) == slice(text, m.index, m.end)

\* group1 as m[0].
group1_Whole(text, m) == whole(text, m)

group1(text, m) ==
  IF m.capStart >= 0 /\ m.capEnd >= m.capStart
  THEN slice(text, m.capStart, m.capEnd) ELSE << >>

(***************************************************************************)
(* The bodies of the scanners' while loops: the Map after one match m.     *)
(***************************************************************************)
\* matchAllUniqueBody with the raw text as the key, not its lower case.
matchAllUniqueBody_CaseSensitive(loop, text, m, unique) ==
  LET raw == trim(whole(text, m))
  IN  IF raw = << >> THEN unique
      ELSE setIfAbsent(unique, raw, raw, By(loop, m.index))

matchAllUniqueBody(loop, text, m, unique) ==
  LET raw == trim(whole(text, m))
  IN  IF raw = << >> THEN unique
      ELSE setIfAbsent(unique, toLowerCase(raw), raw, By(loop, m.index))

\* /^\d{4}$/, /^\d{9}$/ and /^\d{6,17}$/
allDigits(s, lo, hi) ==
  Len(s) >= lo /\ Len(s) <= hi /\ \A j \in DOMAIN s : s[j] \in Digits

\* Number(s) for a string of digits.
RECURSIVE Number(_)
Number(s) ==
  IF s = << >> THEN 0
  ELSE Number(SubSeq(s, 1, Len(s) - 1)) * 10 + (charCode(s[Len(s)]) - 48)

\* findSsnLast4Body with the two ends of the range of years let through.
findSsnLast4Body_OpenRange(text, m, unique) ==
  LET last4 == trim(group1(text, m))
  IN  IF ~allDigits(last4, 4, 4) THEN unique
      ELSE IF Number(last4) > 1900 /\ Number(last4) < 2099 THEN unique
      ELSE setIfAbsent(unique, last4, last4, By("ssnLast4", m.capStart))

\* One iteration of the loop of findSsnLast4: the group is kept unless it
\* is a year from 1900 to 2099.
findSsnLast4Body(text, m, unique) ==
  LET last4 == trim(group1(text, m))
  IN  IF ~allDigits(last4, 4, 4) THEN unique
      ELSE IF Number(last4) >= 1900 /\ Number(last4) <= 2099 THEN unique
      ELSE setIfAbsent(unique, last4, last4, By("ssnLast4", m.capStart))

Max(a, b) == IF a > b THEN a ELSE b

Min(a, b) == IF a < b THEN a ELSE b

\* The lowercased text around a card candidate: 50 characters before its
\* start to 50 characters after its end.
cardContext(text, idx, raw) ==
  toLowerCase(slice(text, Max(0, idx - 50), Min(Len(text), idx + Len(raw) + 50)))

keywordOk(text, idx, raw) == test(CARD_KEYWORD_RE, cardContext(text, idx, raw))

\* cardAccepted with `if (!luhnOk || !keywordOk) continue`.
cardAccepted_Both(luhnOk, kwOk) == luhnOk /\ kwOk

\* if (!luhnOk && !keywordOk) continue
cardAccepted(luhnOk, kwOk) == luhnOk \/ kwOk

findCreditCardsBody(text, m, unique) ==
  LET raw == trim(whole(text, m))
      digits == digitsOnly(raw)
  IN  IF Len(digits) < 13 \/ Len(digits) > 19 THEN unique
      ELSE IF ~cardAccepted(luhnCheck(digits), keywordOk(text, m.index, raw))
           THEN unique
           ELSE setIfAbsent(unique, digits, raw, By("card", m.index))

\* The key prefixes of findBankAccounts.
RoutingPrefix == << "r", "o", "u", "t", "i", "n", "g", ":" >>

AccountPrefix == << "a", "c", "c", "o", "u", "n", "t", ":" >>

SortPrefix == << "s", "o", "r", "t", ":" >>

ibanBody(text, m, unique) ==
  LET raw == trim(whole(text, m))
      normalized == toUpperCase(stripWhitespace(raw))
  IN  IF ~isValidIban(normalized) THEN unique
      ELSE setIfAbsent(unique, normalized, raw, By("iban", m.index))

routingBody(text, m, unique) ==
  LET raw == trim(group1(text, m))
  IN  IF ~allDigits(raw, 9, 9) THEN unique
      ELSE setIfAbsent(unique, RoutingPrefix \o raw, raw, By("routing", m.capStart))

\* accountBody with the key prefix of the routing loop.
accountBody_RoutingKey(text, m, unique) ==
  LET raw == trim(group1(text, m))
  IN  IF ~allDigits(raw, 6, 17) THEN unique
      ELSE setIfAbsent(unique, RoutingPrefix \o raw, raw, By("account", m.capStart))

accountBody(text, m, unique) ==
  LET raw == trim(group1(text, m))
  IN  IF ~allDigits(raw, 6, 17) THEN unique
      ELSE setIfAbsent(unique, AccountPrefix \o raw, raw, By("account", m.capStart))

sortCodeBody(text, m, unique) ==
  LET raw == trim(group1(text, m))
      digits == digitsOnly(raw)
  IN  IF Len(digits) # 6 THEN unique
      ELSE setIfAbsent(unique, SortPrefix \o digits, raw, By("sortCode", m.capStart))

(***************************************************************************)
(* findSensitiveMatches as a state machine.  pc names the while loop in    *)
(* progress, in the order of the source; phase is the place in it.         *)
(***************************************************************************)
VARIABLES
  text,       \* the argument of findSensitiveMatches
  pc,         \* the loop in progress, "return" after the last
  phase,      \* "reset" | "exec" | "body" | "exit"
  lastIndex,  \* re.lastIndex of each module-level pattern
  m,          \* let m: RegExpExecArray | null
  unique,     \* const unique = new Map<string, string>()
  out,        \* const out: SensitiveMatch[]
  origin,     \* history: for out[k], the loop, Map key and text index it came from
  trail,      \* history: every match the loops found, in the order found
  input,      \* the argument of a validator called on its own
  verdict,    \* what the validator returned
  calls,      \* history: the text and the returned list of every earlier call
  state,      \* const initialState: AppState of main.ts
  office,     \* Office.js: "absent", "pending" (onReady not yet called) or "ready"
  wordRun,    \* whether `Word` is defined and has `run`
  inFlight,   \* the runRedactionWorkflow promises that are pending
  document,   \* the Word document: its sections' headers and its body text
  result      \* what the last addConfidentialHeader returned and did

\* The variables of the taskpane and of the document.
appVars == << state, office, wordRun, inFlight, document, result >>

vars ==
  << text, pc, phase, lastIndex, m, unique, out, origin, trail, input, verdict,
     calls, appVars >>

\* The loops with the phone loop before the SSN loops.
Loops_PhoneFirst ==
  << "email", "phone", "ssn", "ssnLast4", "card",
     "iban", "routing", "account", "sortCode",
     "insurancePolicy", "employeeId", "medicalRecordNumber" >>

\* The loops, in the order findSensitiveMatches runs them.
Loops ==
  << "email", "ssn", "ssnLast4", "phone", "card",
     "iban", "routing", "account", "sortCode",
     "insurancePolicy", "employeeId", "medicalRecordNumber" >>

loopAfter(loop) ==
  LET k == CHOOSE j \in DOMAIN Loops : Loops[j] = loop
  IN  IF k = Len(Loops) THEN "return" ELSE Loops[k + 1]

\* The pattern each loop executes.
patternOf(loop) ==
  CASE loop = "email" -> EMAIL_RE
    [] loop = "ssn" -> SSN_RE
    [] loop = "ssnLast4" -> SSN_LAST4_CONTEXT_RE
    [] loop = "phone" -> PHONE_RE
    [] loop = "card" -> CARD_CANDIDATE_RE
    [] loop = "iban" -> IBAN_CANDIDATE_RE
    [] loop = "routing" -> ROUTING_RE
    [] loop = "account" -> ACCOUNT_RE
    [] loop = "sortCode" -> SORT_CODE_RE
    [] loop = "insurancePolicy" -> INS_POLICY_RE
    [] loop = "employeeId" -> EMPLOYEE_ID_RE
    [] loop = "medicalRecordNumber" -> MRN_RE

\* The type findSensitiveMatches pushes the values of each loop with.
typeOf(loop) ==
  CASE loop \in {"ssn", "ssnLast4"} -> "ssn"
    [] loop \in {"iban", "routing", "account", "sortCode"} -> "bank"
    [] OTHER -> loop

\* The loops that are calls of matchAllUnique.
MatchAllUniqueLoops ==
  {"email", "ssn", "phone", "insurancePolicy", "employeeId", "medicalRecordNumber"}

\* The loops of findBankAccounts that another loop on the same Map follows.
BankInnerLoops == {"iban", "routing", "account"}

\* The loops of findBankAccounts that continue the Map of the one before.
BankLaterLoops == {"routing", "account", "sortCode"}

\* The pieces the document texts of the model are made of.
Fragments ==
  <<
     << "c", "@", "d", ".", "i", "o", " ", "a", "@", "b", ".", "c", "o", ",", " ", "A", "@", "B", ".", "C", "O", " " >>,
     << "2", "1", "2", "-", "5", "5", "5", "-", "1", "2", "1", "2", " ", "/", " ", "1", "2", "3", "-", "4", "5", "-", "6", "7", "8", "9", ",", " ", "s", "s", "n", " ", "8", "2", "3", "4", ",", " " >>,
     << "c", "r", "e", "d", "i", "t", " ", "c", "a", "r", "d", " ", "n", "u", "m", "b", "e", "r", ":", " ", "4", "5", "3", "2", "0", "1", "5", "1", "1", "2", "8", "3", "0", "3", "6", "7", " " >>,
     << "4", "5", "3", "2", " ", "0", "1", "5", "1", " ", "1", "2", "8", "3", " ", "0", "3", "6", "6", ";", " " >>,
     << "v", "i", "s", "a", "s", " ", "4", "5", "3", "2", "0", "1", "5", "1", "1", "2", "8", "3", "0", "3", "6", "7", " " >>,
     << "c", "r", "e", "d", "i", "t", "c", "a", "r", "d", " ", "4", "5", "3", "2", "0", "1", "5", "1", "1", "2", "8", "3", "0", "3", "6", "7", " " >>,
     << "v", "i", "s", "a", ":", " " >>,
     << ".", ".", ".", ".", ".", ".", ".", ".", ".", ".", ".", ".", ".", ".", ".", ".", ".", ".", ".", ".", ".", ".", ".", ".", ".", ".", ".", ".", ".", ".", ".", ".", ".", ".", ".", ".", ".", ".", ".", ".", ".", ".", ".", ".", "4", "5", "3", "2", "0", "1", "5", "1", "1", "2", "8", "3", "0", "3", "6", "7", " " >>,
     << "4", "5", "3", "2", "-", "0", "1", "5", "1", "-", "1", "2", "8", "3", "-", "0", "3", "6", "7", ".", ".", ".", ".", ".", ".", ".", ".", ".", ".", ".", ".", ".", ".", ".", ".", ".", ".", ".", ".", ".", ".", ".", ".", ".", ".", ".", ".", ".", ".", ".", ".", ".", ".", ".", ".", ".", ".", ".", ".", ".", ".", ".", ".", ".", "." >>,
     << "r", "o", "u", "t", "i", "n", "g", " ", "1", "2", "3", "4", "5", "6", "7", "8", "9", ",", " ", "a", "c", "c", "o", "u", "n", "t", " ", "1", "2", "3", "4", "5", "6", "7", "8", "9", ";", " " >>,
     << "s", "o", "r", "t", " ", "c", "o", "d", "e", " ", "1", "2", "-", "3", "4", "-", "5", "6", " ", "s", "o", "r", "t", " ", "c", "o", "d", "e", " ", "1", "2", "3", "4", "5", "6", ",", " " >>,
     << "a", "c", "c", "t", " ", "4", "5", "3", "2", "0", "1", "5", "1", "1", "2", "8", "3", "0", "3", "6", "6", " " >>,
     << "I", "N", "S", "-", "4", "4", "5", "5", "6", "6", "7", "7", " ", "E", "M", "P", "-", "2", "0", "2", "4", "-", "5", "5", "6", "7", " ", "M", "R", "N", "-", " ", "9", "9", "8", "8", "7", "7", " ", "g", "b", "8", "2", " ", "w", "e", "s", "t", " ", "1", "2", "3", "4", " ", "5", "6", "9", "8", " ", "7", "6", "5", "4", " ", "3", "2", ".", " " >>
  >>

MaxSegments == 2

RECURSIVE Texts(_, _)
Texts(pieces, n) ==
  IF n = 0 THEN {<< >>}
  ELSE LET shorter == Texts(pieces, n - 1)
       IN  shorter \cup {s \o pieces[f] : s \in shorter, f \in DOMAIN pieces}

\* pushAll that skips a value that the list already has.
pushAll_Unseen(list, type, values) ==
  LET fresh(v) == \A k \in DOMAIN list : list[k].value # v
  IN  list \o [k \in DOMAIN SelectSeq(values, fresh) |->
                 [type |-> type, value |-> SelectSeq(values, fresh)[k]]]

\* for (const value of values) out.push({ type, value })
pushAll(list, type, values) ==
  list \o [k \in DOMAIN values |-> [type |-> type, value |-> values[k]]]

\* The history of the Map entries that are pushed.
originsOf(entries) ==
  [k \in DOMAIN entries |->
     [loop |-> entries[k].from.loop, key |-> entries[k].key,
      index |-> entries[k].from.index]]

NoVerdict == [of |-> "none"]

\* lastResult: null
null == [of |-> "null"]

\* const initialState: AppState of main.ts.
initialState ==
  [officeReady |-> FALSE, running |-> FALSE, lastResult |-> null,
   logs |-> << "Loading" >>]

\* No result of addConfidentialHeader yet.
NoResult == [of |-> "none"]

\* The taskpane as loaded, outside Word and with no document.
AppIdle ==
  /\ state = initialState
  /\ office = "pending"
  /\ wordRun = FALSE
  /\ inFlight = 0
  /\ document = [sections |-> << >>, body |-> << >>]
  /\ result = NoResult

\* No call of findSensitiveMatches in progress.
ScanIdle ==
  /\ text = << >>
  /\ pc = "return"
  /\ phase = "reset"
  /\ lastIndex = [l \in Range(Loops) |-> 0]
  /\ m = NoMatch
  /\ unique = << >>
  /\ out = << >>
  /\ origin = << >>
  /\ trail = << >>
  /\ calls = << >>

Init ==
  /\ text \in Texts(Fragments, MaxSegments)
  /\ pc = Loops[1]
  /\ phase = "reset"
  /\ lastIndex = [l \in Range(Loops) |-> 0]
  /\ m = NoMatch
  /\ unique = << >>
  /\ out = << >>
  /\ origin = << >>
  /\ trail = << >>
  /\ input = << >>
  /\ verdict = NoVerdict
  /\ calls = << >>
  /\ AppIdle

\* Reset with one Map for all loops and calls, never made anew.
Reset_KeepMap ==
  /\ phase = "reset"
  /\ pc # "return"
  /\ lastIndex' = [lastIndex EXCEPT ![pc] = 0]
  /\ unique' = unique
  /\ phase' = "exec"
  /\ UNCHANGED << text, pc, m, out, origin, trail, input, verdict, calls, appVars >>

\* `const unique = new Map()` at the start of a scanner function, and
\* `re.lastIndex = 0` before each loop.
Reset ==
  /\ phase = "reset"
  /\ pc # "return"
  /\ lastIndex' = [lastIndex EXCEPT ![pc] = 0]
  /\ unique' = IF pc \in BankLaterLoops THEN unique ELSE << >>
  /\ phase' = "exec"
  /\ UNCHANGED << text, pc, m, out, origin, trail, input, verdict, calls, appVars >>

\* `(m = re.exec(text)) !== null`: exec leaves lastIndex at the end of the
\* match, or at 0 when there is none.
Exec ==
  /\ phase = "exec"
  /\ m' = exec(patternOf(pc), text, lastIndex[pc])
  /\ lastIndex' = [lastIndex EXCEPT ![pc] = IF m'.end < 0 THEN 0 ELSE m'.end]
  /\ phase' = IF m'.end < 0 THEN "exit" ELSE "body"
  /\ trail' = IF m'.end < 0 THEN trail
               ELSE Append(trail, [loop |-> pc, index |-> m'.index, end |-> m'.end])
  /\ UNCHANGED << text, pc, unique, out, origin, input, verdict, calls, appVars >>

\* One iteration of the while loop of matchAllUnique.
MatchAllUnique ==
  /\ phase = "body"
  /\ pc \in MatchAllUniqueLoops
  /\ unique' = matchAllUniqueBody(pc, text, m, unique)
  /\ phase' = "exec"
  /\ UNCHANGED << text, pc, lastIndex, m, out, origin, trail, input, verdict, calls, appVars >>

\* One iteration of the while loop of findSsnLast4.
FindSsnLast4 ==
  /\ phase = "body"
  /\ pc = "ssnLast4"
  /\ unique' = findSsnLast4Body(text, m, unique)
  /\ phase' = "exec"
  /\ UNCHANGED << text, pc, lastIndex, m, out, origin, trail, input, verdict, calls, appVars >>

\* One iteration of the while loop of findCreditCards.
FindCreditCards ==
  /\ phase = "body"
  /\ pc = "card"
  /\ unique' = findCreditCardsBody(text, m, unique)
  /\ phase' = "exec"
  /\ UNCHANGED << text, pc, lastIndex, m, out, origin, trail, input, verdict, calls, appVars >>

\* One iteration of each of the four while loops of findBankAccounts.
FindBankAccountsIban ==
  /\ phase = "body"
  /\ pc = "iban"
  /\ unique' = ibanBody(text, m, unique)
  /\ phase' = "exec"
  /\ UNCHANGED << text, pc, lastIndex, m, out, origin, trail, input, verdict, calls, appVars >>

FindBankAccountsRouting ==
  /\ phase = "body"
  /\ pc = "routing"
  /\ unique' = routingBody(text, m, unique)
  /\ phase' = "exec"
  /\ UNCHANGED << text, pc, lastIndex, m, out, origin, trail, input, verdict, calls, appVars >>

FindBankAccountsAccount ==
  /\ phase = "body"
  /\ pc = "account"
  /\ unique' = accountBody(text, m, unique)
  /\ phase' = "exec"
  /\ UNCHANGED << text, pc, lastIndex, m, out, origin, trail, input, verdict, calls, appVars >>

FindBankAccountsSortCode ==
  /\ phase = "body"
  /\ pc = "sortCode"
  /\ unique' = sortCodeBody(text, m, unique)
  /\ phase' = "exec"
  /\ UNCHANGED << text, pc, lastIndex, m, out, origin, trail, input, verdict, calls, appVars >>

\* The end of a loop of findBankAccounts that another loop follows.
NextBankLoop ==
  /\ phase = "exit"
  /\ pc \in BankInnerLoops
  /\ pc' = loopAfter(pc)
  /\ phase' = "reset"
  /\ UNCHANGED << text, lastIndex, m, unique, out, origin, trail, input, verdict, calls, appVars >>

\* `return [...unique.values()]` and the for loop of findSensitiveMatches
\* that pushes the values.
Push ==
  /\ phase = "exit"
  /\ pc \notin BankInnerLoops
  /\ out' = pushAll(out, typeOf(pc), mapValues(unique))
  /\ origin' = origin \o originsOf(unique)
  /\ pc' = loopAfter(pc)
  /\ phase' = "reset"
  /\ UNCHANGED << text, lastIndex, m, unique, trail, input, verdict, calls, appVars >>

Next ==
  \/ Reset
  \/ Exec
  \/ MatchAllUnique
  \/ FindSsnLast4
  \/ FindCreditCards
  \/ FindBankAccountsIban
  \/ FindBankAccountsRouting
  \/ FindBankAccountsAccount
  \/ FindBankAccountsSortCode
  \/ NextBankLoop
  \/ Push

Spec == Init /\ [][Next]_vars

(***************************************************************************)
(* findSensitiveMatches on texts that speak of an SSN: a phrase, what      *)
(* follows it, a group of digits and the rest of the text.                 *)
(***************************************************************************)
\* The phrase in both spellings and cases, and a word that only holds it.
SsnPhrases ==
  {<< "s", "o", "c", "i", "a", "l", " ", "s", "e", "c", "u", "r", "i", "t", "y", " ", "n", "u", "m", "b", "e", "r" >>,
   << "S", "o", "c", "i", "a", "l", " ", "S", "e", "c", "u", "r", "i", "t", "y", " ", "N", "u", "m", "b", "e", "r" >>,
   << "s", "s", "n" >>,
   << "S", "S", "N" >>,
   << "s", "s", "n", "s" >>}

\* What stands between the phrase and the digits: words, punctuation, 80
\* and 81 characters, nothing.
SsnFillers ==
  {<< " ", "e", "n", "d", "i", "n", "g", " ", "i", "n", " " >>,
   << ":", " " >>,
   << " ", ".", ".", ".", ".", ".", ".", ".", ".", ".", ".", ".", ".", ".", ".", ".", ".", ".", ".", ".", ".", ".", ".", ".", ".", ".", ".", ".", ".", ".", ".", ".", ".", ".", ".", ".", ".", ".", ".", ".", ".", ".", ".", ".", ".", ".", ".", ".", ".", ".", ".", ".", ".", ".", ".", ".", ".", ".", ".", ".", ".", ".", ".", ".", ".", ".", ".", ".", ".", ".", ".", ".", ".", ".", ".", ".", ".", ".", ".", "." >>,
   << " ", ".", ".", ".", ".", ".", ".", ".", ".", ".", ".", ".", ".", ".", ".", ".", ".", ".", ".", ".", ".", ".", ".", ".", ".", ".", ".", ".", ".", ".", ".", ".", ".", ".", ".", ".", ".", ".", ".", ".", ".", ".", ".", ".", ".", ".", ".", ".", ".", ".", ".", ".", ".", ".", ".", ".", ".", ".", ".", ".", ".", ".", ".", ".", ".", ".", ".", ".", ".", ".", ".", ".", ".", ".", ".", ".", ".", ".", ".", ".", "." >>,
   << >>}

\* Groups of four digits in and around the years 1900 to 2099, and groups
\* that are not four digits on their own.
SsnGroupsWritten ==
  {<< "8", "2", "3", "4" >>,
   << "0", "0", "0", "0" >>,
   << "1", "8", "9", "9" >>,
   << "1", "9", "0", "0" >>,
   << "1", "9", "9", "9" >>,
   << "2", "0", "9", "9" >>,
   << "2", "1", "0", "0" >>,
   << "1", "9", "9", "9", "5" >>,
   << "1", "9", "9" >>,
   << "1", "9", "9", "9", "x" >>}

\* The rest of the text: nothing, a bare group, the phrase with a group.
SsnTails ==
  {<< >>,
   << " ", "8", "2", "3", "4" >>,
   << ",", " ", "s", "s", "n", " ", "8", "2", "3", "4" >>}

\* A document with something of every family.
SampleDocument ==
  Fragments[1] \o Fragments[3] \o Fragments[10] \o Fragments[11] \o Fragments[13]

SsnTexts ==
  {SampleDocument} \cup
  {p \o f \o g \o t :
     p \in SsnPhrases, f \in SsnFillers, g \in SsnGroupsWritten, t \in SsnTails}

InitSsn ==
  /\ text \in SsnTexts
  /\ pc = Loops[1]
  /\ phase = "reset"
  /\ lastIndex = [l \in Range(Loops) |-> 0]
  /\ m = NoMatch
  /\ unique = << >>
  /\ out = << >>
  /\ origin = << >>
  /\ trail = << >>
  /\ input = << >>
  /\ verdict = NoVerdict
  /\ calls = << >>
  /\ AppIdle

SpecSsn == InitSsn /\ [][Next]_vars

(***************************************************************************)
(* findSensitiveMatches called again and again: the patterns and their     *)
(* lastIndex are module-level and outlive a call, everything else is local *)
(* to it.                                                                  *)
(***************************************************************************)
\* The texts of the calls: the empty text and one fragment for each family.
CallTexts == {<< >>} \cup {Fragments[k] : k \in {1, 2, 3, 10, 11, 13}}

\* The number of calls in a row.
MaxCalls == 3

InitCalls ==
  /\ text \in CallTexts
  /\ pc = Loops[1]
  /\ phase = "reset"
  /\ lastIndex = [l \in Range(Loops) |-> 0]
  /\ m = NoMatch
  /\ unique = << >>
  /\ out = << >>
  /\ origin = << >>
  /\ trail = << >>
  /\ input = << >>
  /\ verdict = NoVerdict
  /\ calls = << >>
  /\ AppIdle

\* `return out` of one call and `const out: SensitiveMatch[] = []` of the
\* next: the locals start afresh, lastIndex is what the last call left.
FindSensitiveMatches ==
  /\ pc = "return"
  /\ Len(calls) + 1 < MaxCalls
  /\ calls' = Append(calls, [text |-> text, out |-> out])
  /\ text' \in CallTexts
  /\ pc' = Loops[1]
  /\ phase' = "reset"
  /\ out' = << >>
  /\ origin' = << >>
  /\ trail' = << >>
  /\ UNCHANGED << lastIndex, m, unique, input, verdict, appVars >>

NextCalls ==
  \/ FindSensitiveMatches
  \/ Reset
  \/ Exec
  \/ MatchAllUnique
  \/ FindSsnLast4
  \/ FindCreditCards
  \/ FindBankAccountsIban
  \/ FindBankAccountsRouting
  \/ FindBankAccountsAccount
  \/ FindBankAccountsSortCode
  \/ NextBankLoop
  \/ Push

SpecCalls == InitCalls /\ [][NextCalls]_vars

(***************************************************************************)
(* The taskpane of main.ts: the button, Office.onReady and the promise of  *)
(* runRedactionWorkflow.  Each action is one task of the event loop, from  *)
(* its event to the next await.                                            *)
(***************************************************************************)
\* The lines a workflow in flight may log.
WorkflowLines ==
  {"Track Changes: enabled (WordApi 1.5).", "Updating header: CONFIDENTIAL DOCUMENT",
   "Header updated.", "Header already present (no change)."}

\* What a workflow may resolve with.
Results == {[of |-> "RedactionResult", headerUpdated |-> h] : h \in BOOLEAN}

\* The most lines that the log callback adds to the log of one run.
MaxLogs == 3

\* The module as loaded: without Office.js the else branch has set the log.
InitApp ==
  /\ ScanIdle
  /\ input = << >>
  /\ verdict = NoVerdict
  /\ office \in {"pending", "absent"}
  /\ state = IF office = "absent"
             THEN [initialState EXCEPT !.logs = << "Office.js not detected." >>]
             ELSE initialState
  /\ wordRun \in BOOLEAN
  /\ inFlight = 0
  /\ document = [sections |-> << >>, body |-> << >>]
  /\ result = NoResult

\* Office.onReady((info) => bootInOffice(info))
bootInOffice ==
  /\ office = "pending"
  /\ office' = "ready"
  /\ \E isWordHost \in BOOLEAN :
       state' = [state EXCEPT
                   !.officeReady = isWordHost,
                   !.logs = IF isWordHost
                            THEN << "Ready in Word.", "Tip" >>
                            ELSE << "Loaded in Office host", "This challenge must run inside Microsoft Word.",
                                    "Open Word" >>]
  /\ UNCHANGED << text, pc, phase, lastIndex, m, unique, out, origin, trail,
                  input, verdict, calls, wordRun, inFlight, document, result >>

\* Word fills in its globals, which may be after onReady.
WordLoads ==
  /\ office # "absent"
  /\ ~wordRun
  /\ wordRun' = TRUE
  /\ UNCHANGED << text, pc, phase, lastIndex, m, unique, out, origin, trail,
                  input, verdict, calls, state, office, inFlight, document, result >>

\* onRun that does not look at state.running.
onRun_NotLookingAtRunning ==
  /\ IF ~state.officeReady
     THEN UNCHANGED << state, inFlight >>
     ELSE IF ~wordRun
     THEN /\ state' = [state EXCEPT
                         !.logs = << "Word JavaScript API not available yet.",
                                     "If you're in Word", "If you're not in Word" >>]
          /\ UNCHANGED inFlight
     ELSE /\ state' = [state EXCEPT
                         !.running = TRUE, !.lastResult = null, !.logs = << >>]
          /\ inFlight' = inFlight + 1
  /\ UNCHANGED << text, pc, phase, lastIndex, m, unique, out, origin, trail,
                  input, verdict, calls, office, wordRun, document, result >>

\* A click of the button: onRun up to `await runRedactionWorkflow(...)`.
onRun ==
  /\ IF ~state.officeReady \/ state.running
     THEN UNCHANGED << state, inFlight >>
     ELSE IF ~wordRun
     THEN /\ state' = [state EXCEPT
                         !.logs = << "Word JavaScript API not available yet.",
                                     "If you're in Word", "If you're not in Word" >>]
          /\ UNCHANGED inFlight
     ELSE /\ state' = [state EXCEPT
                         !.running = TRUE, !.lastResult = null, !.logs = << >>]
          /\ inFlight' = inFlight + 1
  /\ UNCHANGED << text, pc, phase, lastIndex, m, unique, out, origin, trail,
                  input, verdict, calls, office, wordRun, document, result >>

\* The callback given to runRedactionWorkflow, called by a workflow in flight.
log ==
  /\ inFlight > 0
  /\ Len(state.logs) < MaxLogs
  /\ \E line \in WorkflowLines :
       state' = [state EXCEPT !.logs = Append(state.logs, line)]
  /\ UNCHANGED << text, pc, phase, lastIndex, m, unique, out, origin, trail,
                  input, verdict, calls, office, wordRun, inFlight, document, result >>

\* The workflow resolves: onRun after the await, and its finally.
Resolved ==
  /\ inFlight > 0
  /\ inFlight' = inFlight - 1
  /\ \E r \in Results :
       state' = [state EXCEPT
                   !.lastResult = r,
                   !.logs = Append(state.logs, "Done."),
                   !.running = FALSE]
  /\ UNCHANGED << text, pc, phase, lastIndex, m, unique, out, origin, trail,
                  input, verdict, calls, office, wordRun, document, result >>

\* The workflow throws: the catch of onRun, and its finally.
Rejected ==
  /\ inFlight > 0
  /\ inFlight' = inFlight - 1
  /\ state' = [state EXCEPT
                 !.logs = Append(state.logs, "Error"),
                 !.running = FALSE]
  /\ UNCHANGED << text, pc, phase, lastIndex, m, unique, out, origin, trail,
                  input, verdict, calls, office, wordRun, document, result >>

NextApp ==
  \/ bootInOffice
  \/ WordLoads
  \/ onRun
  \/ log
  \/ Resolved
  \/ Rejected

SpecApp == InitApp /\ [][NextApp]_vars

(***************************************************************************)
(* The header step of runRedactionWorkflow on a Word document, run after   *)
(* run.  A header is a record: whether reading it throws, and its text.    *)
(***************************************************************************)
\* "CONFIDENTIAL DOCUMENT"
Banner == << "C", "O", "N", "F", "I", "D", "E", "N", "T", "I", "A", "L", " ", "D", "O", "C", "U", "M", "E", "N", "T" >>

\* String.prototype.includes and String.prototype.startsWith.
includes(s, sub) ==
  \E k \in 0..(Len(s) - Len(sub)) : SubSeq(s, k + 1, k + Len(sub)) = sub

startsWith(s, pre) == Len(s) >= Len(pre) /\ SubSeq(s, 1, Len(pre)) = pre

\* const headerTypes = [primary, firstPage, evenPages]
headerTypes == << "primary", "firstPage", "evenPages" >>

\* tryUpdateAnyHeaderInSection from the k-th header type on: whether it
\* updated a header, and the section afterwards.
RECURSIVE tryUpdateFrom(_, _)
tryUpdateFrom(section, k) ==
  IF k > Len(headerTypes) THEN [updated |-> FALSE, section |-> section]
  ELSE LET header == section[headerTypes[k]]
           current == trim(header.text)
       IN  IF header.throws THEN tryUpdateFrom(section, k + 1)
           ELSE IF includes(toUpperCase(current), Banner)
           THEN [updated |-> FALSE, section |-> section]
           ELSE [updated |-> TRUE,
                 section |-> [section EXCEPT
                                ![headerTypes[k]].text = Banner \o << "\r" >> \o header.text]]

tryUpdateAnyHeaderInSection(section) == tryUpdateFrom(section, 1)

\* addConfidentialHeader: what it returns, and the document afterwards.
addConfidentialHeader(doc) ==
  LET tried == [k \in DOMAIN doc.sections |-> tryUpdateAnyHeaderInSection(doc.sections[k])]
      changed == \E k \in DOMAIN tried : tried[k].updated
      sections == [k \in DOMAIN tried |-> tried[k].section]
      bodyText == trimStart(doc.body)
  IN  IF changed
      THEN [changed |-> TRUE, document |-> [doc EXCEPT !.sections = sections]]
      ELSE IF ~startsWith(toUpperCase(bodyText), Banner)
      THEN [changed |-> TRUE,
            document |-> [doc EXCEPT !.body = Banner \o << "\r" >> \o doc.body]]
      ELSE [changed |-> FALSE, document |-> doc]

\* A header that cannot be read, an empty one, and one with the banner in
\* lower case among other words.
Headers ==
  {[throws |-> TRUE, text |-> << >>],
   [throws |-> FALSE, text |-> << >>],
   [throws |-> FALSE, text |-> << "P", "a", "g", "e", " ", "c", "o", "n", "f", "i", "d", "e", "n", "t", "i", "a", "l", " ", "d", "o", "c", "u", "m", "e", "n", "t", " " >>]}

Sections == [primary : Headers, firstPage : Headers, evenPages : Headers]

\* Body texts: empty, without the banner, with it after white space at the
\* start, with it further on.
Bodies ==
  {<< >>,
   << "D", "e", "a", "r", " ", "S", "i", "r" >>,
   << " ", "\r", "c", "o", "n", "f", "i", "d", "e", "n", "t", "i", "a", "l", " ", "d", "o", "c", "u", "m", "e", "n", "t", "\r", "D", "e", "a", "r", " ", "S", "i", "r" >>,
   << "D", "e", "a", "r", " ", "c", "o", "n", "f", "i", "d", "e", "n", "t", "i", "a", "l", " ", "d", "o", "c", "u", "m", "e", "n", "t" >>}

MaxSections == 2

\* The runs of the workflow on one document.
MaxRuns == 3

RECURSIVE SeqsUpTo(_, _)
SeqsUpTo(S, n) ==
  IF n = 0 THEN {<< >>}
  ELSE LET shorter == SeqsUpTo(S, n - 1)
       IN  shorter \cup {Append(s, x) : s \in shorter, x \in S}

InitHeader ==
  /\ ScanIdle
  /\ input = << >>
  /\ verdict = NoVerdict
  /\ state = initialState
  /\ office = "ready"
  /\ wordRun = TRUE
  /\ inFlight = 0
  /\ document \in [sections : SeqsUpTo(Sections, MaxSections), body : Bodies]
  /\ result = [of |-> "addConfidentialHeader", runs |-> 0, headerUpdated |-> FALSE,
               logged |-> << >>]

\* Step 1 of runRedactionWorkflow: the header is added and the outcome
\* logged.
UpdateHeader ==
  /\ result.runs < MaxRuns
  /\ LET r == addConfidentialHeader(document)
     IN  /\ document' = r.document
         /\ result' = [of |-> "addConfidentialHeader",
                       runs |-> result.runs + 1,
                       headerUpdated |-> r.changed,
                       logged |-> << "Updating header: CONFIDENTIAL DOCUMENT",
                                    IF r.changed THEN "Header updated."
                                    ELSE "Header already present (no change)." >>]
  /\ UNCHANGED << text, pc, phase, lastIndex, m, unique, out, origin, trail,
                  input, verdict, calls, state, office, wordRun, inFlight >>

NextHeader == UpdateHeader

SpecHeader == InitHeader /\ [][NextHeader]_vars

(***************************************************************************)
(* The validators called on their own: luhnCheck and isValidIban applied   *)
(* to one input each.                                                      *)
(***************************************************************************)
\* s with its k-th character replaced by c (s itself when it has no k-th
\* character).
change(s, k, c) == [s EXCEPT ![k] = c]

\* All strings of at most n characters of alphabet.
RECURSIVE Strings(_, _)
Strings(alphabet, n) ==
  IF n = 0 THEN {<< >>}
  ELSE LET shorter == Strings(alphabet, n - 1)
       IN  shorter \cup {Append(s, c) : s \in shorter, c \in alphabet}

MaxShort == 3

LuhnBases == {<< "4", "5", "3", "2", "0", "1", "5", "1", "1", "2", "8", "3", "0", "3", "6", "6" >>, << "4", "5", "3", "2", "0", "1", "5", "1", "1", "2", "8", "3", "0", "3", "6", "7" >>, << "7", "9", "9", "2", "7", "3", "9", "8", "7", "1", "3" >>}

\* The digits, the characters next to them in code order ('/' and ':'), a
\* letter and a space.
LuhnChars == Digits \cup {"/", ":", "a", " "}

LuhnInputs ==
  Strings(Digits, MaxShort)
    \cup {change(s, k, c) : s \in LuhnBases, k \in 1..16, c \in LuhnChars}

InitLuhn ==
  /\ ScanIdle
  /\ input \in LuhnInputs
  /\ verdict = NoVerdict
  /\ AppIdle

CallLuhnCheck ==
  /\ verdict = NoVerdict
  /\ verdict' = [of |-> "luhnCheck", value |-> luhnCheck(input)]
  /\ UNCHANGED << text, pc, phase, lastIndex, m, unique, out, origin, trail, input, calls, appVars >>

NextLuhn == CallLuhnCheck

SpecLuhn == InitLuhn /\ [][NextLuhn]_vars

\* IBANs of 15, 22 and 34 characters, the shortest and the longest that the
\* shape allows among them.
IbanBases ==
  {<< "N", "O", "9", "3", "8", "6", "0", "1", "1", "1", "1", "7", "9", "4", "7" >>, << "G", "B", "8", "2", "W", "E", "S", "T", "1", "2", "3", "4", "5", "6", "9", "8", "7", "6", "5", "4", "3", "2" >>,
   << "L", "C", "1", "6", "H", "E", "M", "M", "0", "0", "0", "1", "0", "0", "0", "1", "0", "0", "1", "2", "0", "0", "1", "2", "0", "0", "0", "2", "3", "0", "1", "5", "A", "B" >>}

\* Strings outside the shape: of 14 and of 35 characters, in lower case,
\* with a space, with a letter among the check digits, empty.
IbanOdd ==
  {<< "X", "X", "4", "9", "8", "6", "0", "1", "1", "1", "1", "7", "9", "4" >>, << "X", "X", "9", "8", "H", "E", "M", "M", "0", "0", "0", "1", "0", "0", "0", "1", "0", "0", "1", "2", "0", "0", "1", "2", "0", "0", "0", "2", "3", "0", "1", "5", "A", "B", "C" >>,
   << "g", "b", "8", "2", "w", "e", "s", "t", "1", "2", "3", "4", "5", "6", "9", "8", "7", "6", "5", "4", "3", "2" >>, << "G", "B", "8", "2", " ", "W", "E", "S", "T", "1", "2", "3", "4", "5", "6", "9", "8", "7", "6", "5", "4", "3", "2" >>,
   << "G", "B", "B", "2", "W", "E", "S", "T", "1", "2", "3", "4", "5", "6", "9", "8", "7", "6", "5", "4", "3", "2" >>, << >>}

IbanChars == {"0", "5", "9", "A", "Z", "a", " "}

\* s with the check digits c1 c2.
withCheckDigits(s, c1, c2) == change(change(s, 3, c1), 4, c2)

IbanInputs ==
  IbanOdd \cup
  {withCheckDigits(change(s, k, c), c1, c2) :
     s \in IbanBases, k \in 5..34, c \in IbanChars, c1 \in Digits, c2 \in Digits}

InitIban ==
  /\ ScanIdle
  /\ input \in IbanInputs
  /\ verdict = NoVerdict
  /\ AppIdle

CallIsValidIban ==
  /\ verdict = NoVerdict
  /\ verdict' = [of |-> "isValidIban", value |-> isValidIban(input),
                 peak |-> ibanPeak(input)]
  /\ UNCHANGED << text, pc, phase, lastIndex, m, unique, out, origin, trail, input, calls, appVars >>

NextIban == CallIsValidIban

SpecIban == InitIban /\ [][NextIban]_vars

(***************************************************************************)
(* Properties of the validators.                                          *)
(***************************************************************************)
\* The value of a digit character, and of a letter A..Z as 10..35.
DigitValue(c) == CHOOSE d \in 0..9 : DigitSeq[d + 1] = c

LetterValue(c) == 9 + (CHOOSE k \in 1..26 : UpperSeq[k] = c)

\* The strings that differ from s in exactly one digit character, which is
\* another digit.
SingleDigitChanges(s) ==
  {change(s, k, c) : k \in {j \in DOMAIN s : s[j] \in Digits},
                     c \in Digits} \ {s}

\* The decimal digits of a string of digits and capital letters: a digit as
\* itself, a letter as the two digits of 10..35.
RECURSIVE Expansion(_)
Expansion(s) ==
  IF s = << >> THEN << >>
  ELSE LET c == Head(s)
       IN  (IF c \in Digits THEN << DigitValue(c) >>
            ELSE << LetterValue(c) \div 10, LetterValue(c) % 10 >>)
           \o Expansion(Tail(s))

\* 10^k modulo 97.
RECURSIVE Pow10Mod97(_)
Pow10Mod97(k) == IF k = 0 THEN 1 ELSE (Pow10Mod97(k - 1) * 10) % 97

\* The decimal number with digits ds modulo 97: each digit weighted by the
\* power of ten of its place.
RECURSIVE PlaceSum(_, _)
PlaceSum(ds, j) ==
  IF j > Len(ds) THEN 0
  ELSE (ds[j] * Pow10Mod97(Len(ds) - j) + PlaceSum(ds, j + 1)) % 97

\* The whole number of an IBAN (first four characters moved to the end,
\* letters expanded) modulo 97.
WholeNumberMod97(s) ==
  PlaceSum(Expansion(SubSeq(s, 5, Len(s)) \o SubSeq(s, 1, 4)), 1)

\* The Luhn sum of a string of digits: the digit at an odd distance from the
\* last one counts double, less 9 when the double exceeds 9.
RECURSIVE LuhnSum(_, _)
LuhnSum(s, k) ==
  IF k > Len(s) THEN 0
  ELSE LET d == DigitValue(s[k])
           counted == IF (Len(s) - k) % 2 = 0 THEN d
                      ELSE IF 2 * d > 9 THEN 2 * d - 9 ELSE 2 * d
       IN  counted + LuhnSum(s, k + 1)

\* C4: isValidIban accepts "GB82WEST12345698765432", and whenever it accepts
\* a string, it rejects every string obtained from it by replacing one digit
\* character by a different digit.
C4_SingleDigitChangeRejected ==
  /\ isValidIban(<< "G", "B", "8", "2", "W", "E", "S", "T", "1", "2", "3", "4", "5", "6", "9", "8", "7", "6", "5", "4", "3", "2" >>)
  /\ (verdict.of = "isValidIban" /\ verdict.value)
       => \A changed \in SingleDigitChanges(input) : ~isValidIban(changed)

\* An accepted IBAN other than the example, with its digits to change.
C4_Witness ==
  /\ verdict.of = "isValidIban"
  /\ verdict.value
  /\ input # << "G", "B", "8", "2", "W", "E", "S", "T", "1", "2", "3", "4", "5", "6", "9", "8", "7", "6", "5", "4", "3", "2" >>
  /\ Cardinality(SingleDigitChanges(input)) >= 9 * 13

\* C5: for a string of the IBAN shape, isValidIban returns true exactly when
\* the whole number (rearranged, letters expanded to 10..35) is congruent to
\* 1 modulo 97, and no value computed on the way exceeds 969; a string not of
\* the shape is rejected.
C5_FoldIsWholeNumberMod97 ==
  verdict.of = "isValidIban" =>
    /\ verdict.value = (ibanShape(input) /\ WholeNumberMod97(input) = 1)
    /\ verdict.peak <= 969

\* An accepted IBAN of the longest shape, with letters, whose fold came
\* close to the largest value.
C5_Witness ==
  /\ verdict.of = "isValidIban"
  /\ verdict.value
  /\ Len(input) = 34
  /\ \E k \in 5..34 : input[k] \in Upper
  /\ verdict.peak > 900

\* A string outside the shape whose number is congruent to 1 is rejected.
C5_WitnessShape ==
  /\ verdict.of = "isValidIban"
  /\ ~verdict.value
  /\ input = << "X", "X", "4", "9", "8", "6", "0", "1", "1", "1", "1", "7", "9", "4" >>
  /\ WholeNumberMod97(input) = 1

\* C6: luhnCheck returns true for a string exactly when it consists of digits
\* whose Luhn sum is divisible by 10; it accepts "4532015112830366", rejects
\* "4532015112830367", and rejects every single-digit change of a string it
\* accepts.
C6_LuhnCheck ==
  /\ luhnCheck(<< "4", "5", "3", "2", "0", "1", "5", "1", "1", "2", "8", "3", "0", "3", "6", "6" >>)
  /\ ~luhnCheck(<< "4", "5", "3", "2", "0", "1", "5", "1", "1", "2", "8", "3", "0", "3", "6", "7" >>)
  /\ verdict.of = "luhnCheck" =>
       /\ verdict.value = (/\ \A k \in DOMAIN input : input[k] \in Digits
                           /\ LuhnSum(input, 1) % 10 = 0)
       /\ verdict.value =>
            \A changed \in SingleDigitChanges(input) : ~luhnCheck(changed)

\* The accepted example, after the call.
C6_Witness ==
  /\ verdict.of = "luhnCheck"
  /\ verdict.value
  /\ input = << "4", "5", "3", "2", "0", "1", "5", "1", "1", "2", "8", "3", "0", "3", "6", "6" >>

(***************************************************************************)
(* Properties of findSensitiveMatches.                                     *)
(***************************************************************************)
\* The call has returned: out is the list returned.
Returned == pc = "return"

\* Two entries of out of one type.
SameType(i, j) == i < j /\ out[i].type = out[j].type

EqualIgnoringCase(a, b) == toLowerCase(a) = toLowerCase(b)

rank(order, loop) == CHOOSE k \in DOMAIN order : order[k] = loop

\* out is in the order `order` of the loops and, within a loop, in the order
\* of the entries' first occurrences in the text; each entry carries the
\* type of its loop.
InOrder(order) ==
  /\ Len(origin) = Len(out)
  /\ \A k \in DOMAIN out : out[k].type = typeOf(origin[k].loop)
  /\ \A i, j \in DOMAIN origin :
       i < j =>
         \/ rank(order, origin[i].loop) < rank(order, origin[j].loop)
         \/ /\ origin[i].loop = origin[j].loop
            /\ origin[i].index < origin[j].index

ClaimedOrder ==
  << "email", "phone", "ssn", "ssnLast4", "card",
     "iban", "routing", "account", "sortCode",
     "insurancePolicy", "employeeId", "medicalRecordNumber" >>

CodeOrder ==
  << "email", "ssn", "ssnLast4", "phone", "card",
     "iban", "routing", "account", "sortCode",
     "insurancePolicy", "employeeId", "medicalRecordNumber" >>

\* C2 as claimed: the list is in the order email, phone, ssn (direct, then
\* last 4), card, bank (IBAN, routing, account, sort code), insurancePolicy,
\* employeeId, medicalRecordNumber, by first occurrence within each.
C2_ClaimedFamilyOrder == InOrder(ClaimedOrder)

\* C2 as amended: the list is in the order email, ssn (direct, then last 4),
\* phone, card, bank (IBAN, routing, account, sort code), insurancePolicy,
\* employeeId, medicalRecordNumber, by first occurrence within each.
C2_CodeFamilyOrder == InOrder(CodeOrder)

\* A returned list with an SSN before a phone number that precedes it in the
\* text, and two entries of one loop.
C2_Witness ==
  /\ Returned
  /\ \E i, j \in DOMAIN out :
       /\ i < j
       /\ out[i].type = "ssn" /\ out[j].type = "phone"
       /\ origin[j].index < origin[i].index
  /\ \E i, j \in DOMAIN origin : i < j /\ origin[i].loop = origin[j].loop

\* Whether s is pre followed by something.
StartsWith(s, pre) == Len(s) >= Len(pre) /\ SubSeq(s, 1, Len(pre)) = pre

\* The key that the claim gives an entry of a bank sub-kind with value v.
NamespacedKey(loop, v) ==
  CASE loop = "iban" -> toUpperCase(stripWhitespace(v))
    [] loop = "routing" -> << "r", "o", "u", "t", "i", "n", "g", ":" >> \o v
    [] loop = "account" -> << "a", "c", "c", "o", "u", "n", "t", ":" >> \o v
    [] loop = "sortCode" -> << "s", "o", "r", "t", ":" >> \o digitsOnly(v)

\* C7: each bank entry has the key of its sub-kind (the normalized IBAN,
\* routing:<digits>, account:<digits>, sort:<digits>), keys of different
\* sub-kinds differ, and no two entries of one type have the same key.
C7_BankKeysNamespaced ==
  /\ \A k \in DOMAIN origin :
       origin[k].loop \in {"iban", "routing", "account", "sortCode"}
         => origin[k].key = NamespacedKey(origin[k].loop, out[k].value)
  /\ \A i, j \in DOMAIN origin :
       (i < j /\ typeOf(origin[i].loop) = typeOf(origin[j].loop))
         => origin[i].key # origin[j].key

\* The same digits as a routing number and as an account number: two bank
\* entries; the same sort code written twice: one.
C7_Witness ==
  /\ Returned
  /\ text = << "r", "o", "u", "t", "i", "n", "g", " ", "1", "2", "3", "4", "5", "6", "7", "8", "9", ",", " ", "a", "c", "c", "o", "u", "n", "t", " ", "1", "2", "3", "4", "5", "6", "7", "8", "9", ";", " " >>
  /\ out = << [type |-> "bank", value |-> << "1", "2", "3", "4", "5", "6", "7", "8", "9" >>],
              [type |-> "bank", value |-> << "1", "2", "3", "4", "5", "6", "7", "8", "9" >>] >>

C7_WitnessSame ==
  /\ Returned
  /\ text = << "s", "o", "r", "t", " ", "c", "o", "d", "e", " ", "1", "2", "-", "3", "4", "-", "5", "6", " ", "s", "o", "r", "t", " ", "c", "o", "d", "e", " ", "1", "2", "3", "4", "5", "6", ",", " " >>
  /\ out = << [type |-> "bank", value |-> << "1", "2", "-", "3", "4", "-", "5", "6" >>] >>

BareDigits(v, lo, hi) ==
  Len(v) >= lo /\ Len(v) <= hi /\ \A k \in DOMAIN v : v[k] \in Digits

\* Three groups of two digits, a single "-" or space or nothing between
\* them.
SortCodeShaped(v) ==
  \E a, b \in 0..1 :
    /\ Len(v) = 6 + a + b
    /\ \A k \in DOMAIN v :
         IF (a = 1 /\ k = 3) \/ (b = 1 /\ k = 5 + a)
         THEN v[k] \in {"-", " "}
         ELSE v[k] \in Digits

\* C9 as claimed: the values of the SSN-last-4, routing, account and sort
\* code entries are bare digit sequences of 4, 9, 6 to 17 and 6 digits.
C9_BareDigitValues ==
  \A k \in DOMAIN origin :
    /\ origin[k].loop = "ssnLast4" => BareDigits(out[k].value, 4, 4)
    /\ origin[k].loop = "routing" => BareDigits(out[k].value, 9, 9)
    /\ origin[k].loop = "account" => BareDigits(out[k].value, 6, 17)
    /\ origin[k].loop = "sortCode" => BareDigits(out[k].value, 6, 6)

\* C9 as amended: the values of the SSN-last-4, routing and account entries
\* are bare digit sequences of 4, 9 and 6 to 17 digits; the value of a sort
\* code entry is the sort code as written, three groups of two digits with
\* the "-" or space that separates them.
C9_DigitValuesSortCodeAsWritten ==
  \A k \in DOMAIN origin :
    /\ origin[k].loop = "ssnLast4" => BareDigits(out[k].value, 4, 4)
    /\ origin[k].loop = "routing" => BareDigits(out[k].value, 9, 9)
    /\ origin[k].loop = "account" => BareDigits(out[k].value, 6, 17)
    /\ origin[k].loop = "sortCode" => SortCodeShaped(out[k].value)

\* A routing and an account number without their keywords and a sort code
\* with its hyphens.
C9_Witness ==
  /\ Returned
  /\ text = << "r", "o", "u", "t", "i", "n", "g", " ", "1", "2", "3", "4", "5", "6", "7", "8", "9", ",", " ", "a", "c", "c", "o", "u", "n", "t", " ", "1", "2", "3", "4", "5", "6", "7", "8", "9", ";", " ", "s", "o", "r", "t", " ", "c", "o", "d", "e", " ", "1", "2", "-", "3", "4", "-", "5", "6", " ", "s", "o", "r", "t", " ", "c", "o", "d", "e", " ", "1", "2", "3", "4", "5", "6", ",", " " >>
  /\ out = << [type |-> "bank", value |-> << "1", "2", "3", "4", "5", "6", "7", "8", "9" >>],
              [type |-> "bank", value |-> << "1", "2", "3", "4", "5", "6", "7", "8", "9" >>],
              [type |-> "bank", value |-> << "1", "2", "-", "3", "4", "-", "5", "6" >>] >>

\* C10: the Map a family returns holds entries of that family only; out
\* changes only when a family returns, and then by having the values of that
\* Map appended, each with the family's type, whatever out holds already.
C10_FamiliesIndependent ==
  /\ [](phase = "exit" =>
          \A k \in DOMAIN unique : typeOf(unique[k].from.loop) = typeOf(pc))
  /\ [][\/ out' = out
        \/ /\ phase = "exit"
           /\ out' = out \o [k \in DOMAIN unique |->
                               [type |-> typeOf(pc), value |-> unique[k].value]]]_vars

\* A number that is a card and an account number, returned once as each.
C10_Witness ==
  /\ Returned
  /\ text = << "a", "c", "c", "t", " ", "4", "5", "3", "2", "0", "1", "5", "1", "1", "2", "8", "3", "0", "3", "6", "6", " " >>
  /\ out = << [type |-> "card", value |-> << "4", "5", "3", "2", "0", "1", "5", "1", "1", "2", "8", "3", "0", "3", "6", "6" >>],
              [type |-> "bank", value |-> << "4", "5", "3", "2", "0", "1", "5", "1", "1", "2", "8", "3", "0", "3", "6", "6" >>] >>

\* The matches of the card pattern, in the order found.
CardCandidates == {k \in DOMAIN trail : trail[k].loop = "card"}

RawOf(k) == SubSeq(text, trail[k].index + 1, trail[k].end)

IsDigit(c) == c \in Digits

DigitsOf(k) == SelectSeq(RawOf(k), IsDigit)

\* The text from 50 characters before candidate k to 50 after, in lower
\* case.
WindowOf(k) ==
  LET first == IF trail[k].index > 50 THEN trail[k].index - 50 ELSE 0
      last == IF trail[k].end + 50 < Len(text) THEN trail[k].end + 50
              ELSE Len(text)
  IN  toLowerCase(SubSeq(text, first + 1, last))

\* The keywords, word by word.
Keywords ==
  { << << "c", "r", "e", "d", "i", "t" >>, << "c", "a", "r", "d" >> >>, << << "d", "e", "b", "i", "t" >>, << "c", "a", "r", "d" >> >>, << << "c", "a", "r", "d" >>, << "n", "u", "m", "b", "e", "r" >> >>,
    << << "v", "i", "s", "a" >> >>, << << "m", "a", "s", "t", "e", "r", "c", "a", "r", "d" >> >>, << << "a", "m", "e", "x" >> >>,
    << << "a", "m", "e", "r", "i", "c", "a", "n" >>, << "e", "x", "p", "r", "e", "s", "s" >> >> }

\* ctx has s at index p (from 0).
HasAt(ctx, p, s) ==
  p + Len(s) <= Len(ctx) /\ SubSeq(ctx, p + 1, p + Len(s)) = s

\* The keyword as written in the claim: its words with one space between.
Spelled(words) ==
  IF Len(words) = 1 THEN words[1] ELSE words[1] \o << " " >> \o words[2]

\* ctx contains a keyword as a substring.
ContainsKeyword(ctx) ==
  \E words \in Keywords : \E p \in 0..Len(ctx) : HasAt(ctx, p, Spelled(words))

IsWordChar(ctx, p) == p >= 1 /\ p <= Len(ctx) /\ ctx[p] \in WordChars

\* Index p of ctx (from 0) lies between a word character and none.
AtWordBoundary(ctx, p) == IsWordChar(ctx, p) # IsWordChar(ctx, p + 1)

\* ctx contains a keyword as a whole word, with any whitespace, or none,
\* between the words of a keyword of two words.
ContainsKeywordAsWord(ctx) ==
  \E words \in Keywords : \E p \in 0..Len(ctx) :
    /\ AtWordBoundary(ctx, p)
    /\ HasAt(ctx, p, words[1])
    /\ IF Len(words) = 1 THEN AtWordBoundary(ctx, p + Len(words[1]))
       ELSE \E gap \in 0..Len(ctx) :
              /\ \A g \in 1..gap :
                   /\ p + Len(words[1]) + g <= Len(ctx)
                   /\ ctx[p + Len(words[1]) + g] \in Whitespace
              /\ HasAt(ctx, p + Len(words[1]) + gap, words[2])
              /\ AtWordBoundary(ctx, p + Len(words[1]) + gap + Len(words[2]))

\* When the card loop ends, the Map holds exactly the digit strings of the
\* candidates of 13 to 19 digits that pass the Luhn check or have a keyword
\* in their window.
CardRule(HasKeyword(_)) ==
  (pc = "card" /\ phase = "exit") =>
    /\ \A e \in DOMAIN unique : \E k \in CardCandidates : DigitsOf(k) = unique[e].key
    /\ \A k \in CardCandidates :
         (Len(DigitsOf(k)) >= 13 /\ Len(DigitsOf(k)) <= 19) =>
           ((\E e \in DOMAIN unique : unique[e].key = DigitsOf(k))
              <=> \E j \in CardCandidates :
                    /\ DigitsOf(j) = DigitsOf(k)
                    /\ \/ LuhnSum(DigitsOf(j), 1) % 10 = 0
                       \/ HasKeyword(WindowOf(j)))

\* C3 as claimed: a card candidate is returned if and only if its digits pass
\* the Luhn check or its window contains one of the keywords.
C3_KeywordAnywhere == CardRule(ContainsKeyword)

\* C3 as amended: a card candidate is returned if and only if its digits pass
\* the Luhn check or its window contains one of the keywords as a whole
\* word, the two words of a keyword separated by any whitespace or none.
C3_KeywordAsWord == CardRule(ContainsKeywordAsWord)

\* A number that fails the Luhn check, accepted for the keyword exactly 50
\* characters before it.
C3_Witness ==
  /\ pc = "card" /\ phase = "exit"
  /\ \E k \in CardCandidates :
       /\ trail[k].index = 50
       /\ LuhnSum(DigitsOf(k), 1) % 10 # 0
       /\ HasAt(WindowOf(k), 0, << "v", "i", "s", "a" >>)
       /\ \E e \in DOMAIN unique : unique[e].key = DigitsOf(k)

\* The number d occurs in the text more than once, not always written the
\* same way.
Repeated(d) ==
  \E j, k \in CardCandidates :
    DigitsOf(j) = d /\ DigitsOf(k) = d /\ RawOf(j) # RawOf(k)

\* The first of the candidates in `among` with digits d.
FirstWith(among, d) ==
  CHOOSE k \in among :
    DigitsOf(k) = d /\ \A j \in among : DigitsOf(j) = d => k <= j

\* The card entries of out for the number d.
CardEntries(d) ==
  {e \in DOMAIN out : out[e].type = "card" /\ SelectSeq(out[e].value, IsDigit) = d}

\* The candidates that pass the Luhn check or have a keyword in their window.
AcceptedCandidates ==
  {k \in CardCandidates :
     \/ LuhnSum(DigitsOf(k), 1) % 10 = 0
     \/ ContainsKeywordAsWord(WindowOf(k))}

\* C8 as claimed: a card number that occurs several times with different
\* formatting is returned exactly once, with the formatting of its first
\* occurrence in the text.
C8_FirstOccurrenceFormatting ==
  Returned =>
    \A k \in CardCandidates :
      Repeated(DigitsOf(k)) =>
        \E e \in DOMAIN out :
          /\ CardEntries(DigitsOf(k)) = {e}
          /\ out[e].value = RawOf(FirstWith(CardCandidates, DigitsOf(k)))

\* C8 as amended: a card number that occurs several times with different
\* formatting is returned at most once: not at all when none of its
\* occurrences is accepted, and otherwise with the formatting of its first
\* accepted occurrence.
C8_FirstAcceptedFormatting ==
  Returned =>
    \A k \in CardCandidates :
      Repeated(DigitsOf(k)) =>
        IF \E j \in AcceptedCandidates : DigitsOf(j) = DigitsOf(k)
        THEN \E e \in DOMAIN out :
               /\ CardEntries(DigitsOf(k)) = {e}
               /\ out[e].value = RawOf(FirstWith(AcceptedCandidates, DigitsOf(k)))
        ELSE CardEntries(DigitsOf(k)) = {}

\* One number written with spaces and then without: returned once, with the
\* spaces.
C8_Witness ==
  /\ Returned
  /\ text = << "4", "5", "3", "2", " ", "0", "1", "5", "1", " ", "1", "2", "8", "3", " ", "0", "3", "6", "6", ";", " ", "a", "c", "c", "t", " ", "4", "5", "3", "2", "0", "1", "5", "1", "1", "2", "8", "3", "0", "3", "6", "6", " " >>
  /\ Cardinality(CardCandidates) = 2
  /\ out = << [type |-> "card", value |-> << "4", "5", "3", "2", " ", "0", "1", "5", "1", " ", "1", "2", "8", "3", " ", "0", "3", "6", "6" >>],
              [type |-> "bank", value |-> << "4", "5", "3", "2", "0", "1", "5", "1", "1", "2", "8", "3", "0", "3", "6", "6" >>] >>

(***************************************************************************)
(* Properties of calls in a row.                                           *)
(***************************************************************************)
\* C11: two calls of findSensitiveMatches with the same text return the same
\* list in the same order, whatever calls came between them, and every loop
\* starts with the cursor of its pattern at 0.
C11_SameTextSameList ==
  /\ [](\A i, j \in DOMAIN calls :
          calls[i].text = calls[j].text => calls[i].out = calls[j].out)
  /\ [](pc = "return" =>
          \A i \in DOMAIN calls : calls[i].text = text => calls[i].out = out)
  /\ [][phase = "reset" /\ phase' = "exec" => lastIndex'[pc] = 0]_vars

\* A third call that returns what the first returned for the same text,
\* after a call on another text that found something.
C11_Witness ==
  /\ pc = "return"
  /\ Len(calls) = 2
  /\ calls[1].text = text
  /\ calls[2].text # text
  /\ calls[2].out # << >>
  /\ calls[1].out = out
  /\ out # << >>

(***************************************************************************)
(* Properties of the last four digits of an SSN.                           *)
(***************************************************************************)
\* The matches of the SSN-last-4 pattern, and the four digits each ends
\* with, which are its group.
SsnLast4Found == {k \in DOMAIN trail : trail[k].loop = "ssnLast4"}

GroupOf(k) == SubSeq(text, trail[k].end - 3, trail[k].end)

\* The integer that four digits write.
IntegerValue(g) ==
  1000 * DigitValue(g[1]) + 100 * DigitValue(g[2])
    + 10 * DigitValue(g[3]) + DigitValue(g[4])

InYears(g) == IntegerValue(g) >= 1900 /\ IntegerValue(g) <= 2099

ReturnedAsSsn(g) ==
  \E j \in DOMAIN out : out[j].type = "ssn" /\ out[j].value = g

\* C12: a group of four digits that the pattern finds after the phrase is
\* returned as an ssn match if and only if its integer value is outside
\* 1900..2099; no entry of findSsnLast4 has a value in 1900..2099; "social
\* security number ending in 8234" yields "8234" and "social security number
\* ending in 1999" yields nothing.
C12_ReturnedIffNotAYear ==
  Returned =>
    /\ \A k \in SsnLast4Found : ReturnedAsSsn(GroupOf(k)) <=> ~InYears(GroupOf(k))
    /\ \A j \in DOMAIN origin :
         origin[j].loop = "ssnLast4" =>
           /\ Len(out[j].value) = 4
           /\ \A c \in Range(out[j].value) : c \in Digits
           /\ ~InYears(out[j].value)
    /\ text = << "s", "o", "c", "i", "a", "l", " ", "s", "e", "c", "u", "r", "i", "t", "y", " ", "n", "u", "m", "b", "e", "r", " ", "e", "n", "d", "i", "n", "g", " ", "i", "n", " ", "8", "2", "3", "4" >>
         => out = << [type |-> "ssn", value |-> << "8", "2", "3", "4" >>] >>
    /\ text = << "s", "o", "c", "i", "a", "l", " ", "s", "e", "c", "u", "r", "i", "t", "y", " ", "n", "u", "m", "b", "e", "r", " ", "e", "n", "d", "i", "n", "g", " ", "i", "n", " ", "1", "9", "9", "9" >>
         => out = << >>

\* A text with the phrase twice, before a year and before another group:
\* only the other group is returned.
C12_Witness ==
  /\ Returned
  /\ \E j, k \in SsnLast4Found :
       /\ InYears(GroupOf(j))
       /\ ~InYears(GroupOf(k))
       /\ out = << [type |-> "ssn", value |-> GroupOf(k)] >>

(***************************************************************************)
(* Properties of the taskpane.                                             *)
(***************************************************************************)
\* C13: at most one runRedactionWorkflow is in flight, and state.running is
\* true exactly while one is; a workflow starts only when Office is ready
\* and none is running; when a workflow resolves or throws, running is
\* false again.
C13_OneWorkflowInFlight ==
  /\ [](inFlight <= 1 /\ (state.running <=> inFlight = 1))
  /\ [][inFlight' > inFlight => state.officeReady /\ ~state.running /\ inFlight = 0]_vars
  /\ [][inFlight' < inFlight => ~state'.running]_vars

\* A workflow that was started by a click has resolved, and none is running.
C13_Witness ==
  /\ state.lastResult # null
  /\ ~state.running
  /\ inFlight = 0

(***************************************************************************)
(* Properties of the header step.                                          *)
(***************************************************************************)
\* The document has a section, and the primary header of every section can
\* be read and contains "CONFIDENTIAL DOCUMENT".
EveryHeaderHasBanner ==
  /\ document.sections # << >>
  /\ \A k \in DOMAIN document.sections :
       /\ ~document.sections[k].primary.throws
       /\ includes(document.sections[k].primary.text, Banner)

\* C14: when every section's header already contains "CONFIDENTIAL
\* DOCUMENT", the header step inserts nothing anywhere in the document,
\* addConfidentialHeader returns false and the run logs "Header already
\* present (no change).".
C14_HeaderIdempotent ==
  [][(EveryHeaderHasBanner /\ result'.runs > result.runs) =>
       /\ document' = document
       /\ ~result'.headerUpdated
       /\ result'.logged[Len(result'.logged)] = "Header already present (no change)."]_vars

====
